---- MODULE Spec2Model ----
(***************************************************************************)
(* The command graph of libqtile/command_graph.py: nodes allocated by      *)
(* navigate(), their selectors and their rendered paths.                   *)
(*                                                                         *)
(* Node objects live in a heap, the sequence `nodes`; a reference to a     *)
(* node is its index.  Index 1 is the CommandGraphRoot the caller starts   *)
(* from.  Optional[str] is modelled as a sequence of at most one string:   *)
(* None is <<>>, the string s is <<s>>, so that "" differs from None.      *)
(***************************************************************************)
EXTENDS Integers, Sequences, FiniteSets, TLC

VARIABLES
    nodes,      \* the heap of node objects
    trail,      \* trail[i]: the navigate steps, from the root, that made nodes[i]
    result      \* the outcome of the last navigate call

vars == <<nodes, trail, result>>

\* ---------------------------------------------------------------- bounds
MaxNodes == 3
MaxWalk == 4

\* The names and selectors a caller passes to navigate.
Names == {"bar", "group", "layout", "screen", "widget", "window", "status", "info"}

None == <<>>
Some(s) == <<s>>
Selectors == {None, Some(""), Some("1"), Some("work")}

\* ------------------------------------------------------------ the classes
ObjectClasses ==
    {"_BarGraphNode", "_GroupGraphNode", "_LayoutGraphNode",
     "_ScreenGraphNode", "_WidgetGraphNode", "_WindowGraphNode"}

\* The classes that derive from CommandGraphContainer and so have navigate.
ContainerClasses == {"CommandGraphRoot"} \cup ObjectClasses

\* The class attribute object_type of each CommandGraphObject subclass.
object_type(node) ==
    CASE node.cls = "_BarGraphNode"    -> "bar"
      [] node.cls = "_GroupGraphNode"  -> "group"
      [] node.cls = "_LayoutGraphNode" -> "layout"
      [] node.cls = "_ScreenGraphNode" -> "screen"
      [] node.cls = "_WidgetGraphNode" -> "widget"
      [] node.cls = "_WindowGraphNode" -> "window"

\* Mutant: the root's list lacks its last but one entry.
RootChildren_NoWidget == <<"bar", "group", "layout", "screen", "window">>

\* CommandGraphRoot.children
RootChildren == <<"bar", "group", "layout", "screen", "widget", "window">>

\* Mutant: the bar class lists widget too.
children_BarWidget(node) ==
    CASE node.cls = "CommandGraphRoot" -> RootChildren
      [] node.cls = "_BarGraphNode"    -> <<"screen", "widget">>
      [] node.cls = "_GroupGraphNode"  -> <<"layout", "window", "screen">>
      [] node.cls = "_LayoutGraphNode" -> <<"group", "window", "screen">>
      [] node.cls = "_ScreenGraphNode" -> <<"layout", "window", "bar">>
      [] node.cls = "_WidgetGraphNode" -> <<"bar", "screen", "group">>
      [] node.cls = "_WindowGraphNode" -> <<"group", "screen", "layout">>
      [] OTHER                         -> <<>>

\* Mutant: the widget class lists window too.
children_WidgetWindow(node) ==
    CASE node.cls = "CommandGraphRoot" -> RootChildren
      [] node.cls = "_BarGraphNode"    -> <<"screen">>
      [] node.cls = "_GroupGraphNode"  -> <<"layout", "window", "screen">>
      [] node.cls = "_LayoutGraphNode" -> <<"group", "window", "screen">>
      [] node.cls = "_ScreenGraphNode" -> <<"layout", "window", "bar">>
      [] node.cls = "_WidgetGraphNode" -> <<"bar", "screen", "group", "window">>
      [] node.cls = "_WindowGraphNode" -> <<"group", "screen", "layout">>
      [] OTHER                         -> <<>>

\* The children of a node: a property of the root, a class attribute of the
\* object classes.  CommandGraphCall declares none.
children(node) ==
    CASE node.cls = "CommandGraphRoot" -> RootChildren
      [] node.cls = "_BarGraphNode"    -> <<"screen">>
      [] node.cls = "_GroupGraphNode"  -> <<"layout", "window", "screen">>
      [] node.cls = "_LayoutGraphNode" -> <<"group", "window", "screen">>
      [] node.cls = "_ScreenGraphNode" -> <<"layout", "window", "bar">>
      [] node.cls = "_WidgetGraphNode" -> <<"bar", "screen", "group">>
      [] node.cls = "_WindowGraphNode" -> <<"group", "screen", "layout">>
      [] OTHER                         -> <<>>

\* Mutant: the dict lacks its last entry.
_CommandGraphMap_NoScreen ==
    [name \in {"bar", "group", "layout", "widget", "window"} |->
        CASE name = "bar"    -> "_BarGraphNode"
          [] name = "group"  -> "_GroupGraphNode"
          [] name = "layout" -> "_LayoutGraphNode"
          [] name = "widget" -> "_WidgetGraphNode"
          [] name = "window" -> "_WindowGraphNode"]

\* The dict _CommandGraphMap: object name -> class.
_CommandGraphMap ==
    [name \in {"bar", "group", "layout", "widget", "window", "screen"} |->
        CASE name = "bar"    -> "_BarGraphNode"
          [] name = "group"  -> "_GroupGraphNode"
          [] name = "layout" -> "_LayoutGraphNode"
          [] name = "widget" -> "_WidgetGraphNode"
          [] name = "window" -> "_WindowGraphNode"
          [] name = "screen" -> "_ScreenGraphNode"]

\* Python's `x in list`
In(x, list) == \E k \in DOMAIN list : list[k] = x

\* ------------------------------------------------------- node construction
\* The root object: no fields of its own.
RootNode == [cls |-> "CommandGraphRoot", _selector |-> None, _parent |-> 0, _name |-> ""]

\* Mutant: the constructor drops its parent argument and hangs the object
\* under the root.
NewObject_UnderRoot(cls, sel, par) ==
    [cls |-> cls, _selector |-> sel, _parent |-> 1, _name |-> ""]

\* CommandGraphObject.__init__(selector, parent), run for class cls
NewObject(cls, sel, par) ==
    [cls |-> cls, _selector |-> sel, _parent |-> par, _name |-> ""]

\* CommandGraphCall.__init__(name, parent)
NewCall(name, par) ==
    [cls |-> "CommandGraphCall", _selector |-> None, _parent |-> par, _name |-> name]

\* ------------------------------------------------------------- properties
\* node.selector: None for the root, the stored selector for an object.
selector(node) ==
    IF node.cls = "CommandGraphRoot" THEN None ELSE node._selector

\* node.parent: None (0) for the root, the stored parent otherwise.
parent(node) ==
    IF node.cls = "CommandGraphRoot" THEN 0 ELSE node._parent

\* Mutant: a call adds a step of its own, its name without a selector.
RECURSIVE selectors_CallStep(_, _)
selectors_CallStep(h, i) ==
    IF h[i].cls = "CommandGraphRoot" THEN <<>>
    ELSE IF h[i].cls = "CommandGraphCall"
    THEN selectors_CallStep(h, parent(h[i])) \o << <<h[i]._name, None>> >>
    ELSE selectors_CallStep(h, parent(h[i])) \o << <<object_type(h[i]), selector(h[i])>> >>

\* node.selectors, for the node at index i of heap h.
RECURSIVE selectors(_, _)
selectors(h, i) ==
    IF h[i].cls = "CommandGraphRoot" THEN <<>>
    ELSE IF h[i].cls = "CommandGraphCall" THEN selectors(h, parent(h[i]))
    ELSE selectors(h, parent(h[i])) \o << <<object_type(h[i]), selector(h[i])>> >>

\* Mutant: the truth value of the selector decides, `if selector:`.
FormatElement_Truthy(step) ==
    IF step[2] # None /\ step[2] # Some("") THEN step[1] \o "[" \o step[2][1] \o "]"
    ELSE step[1]

\* "{}[{}]".format(name, selector) or the bare name
FormatElement(step) ==
    IF step[2] # None THEN step[1] \o "[" \o step[2][1] \o "]" ELSE step[1]

\* sep.join(elements)
RECURSIVE Join(_, _)
Join(sep, elements) ==
    IF elements = <<>> THEN ""
    ELSE IF Len(elements) = 1 THEN elements[1]
    ELSE elements[1] \o sep \o Join(sep, Tail(elements))

\* Mutant: the else branch is missing, a step without a selector adds no
\* element.
_format_selectors_NoElse(sels) ==
    LET IsSelected(step) == step[2] # None
        chosen == SelectSeq(sels, IsSelected)
        path_elements == [k \in DOMAIN chosen |-> FormatElement(chosen[k])]
    IN  Join(".", path_elements)

\* _format_selectors(selectors)
_format_selectors(sels) ==
    LET path_elements == [k \in DOMAIN sels |-> FormatElement(sels[k])]
    IN  Join(".", path_elements)

\* CommandGraphContainer.path
ContainerPath(h, i) == _format_selectors(selectors(h, i))

\* Mutant: the parent's path is always put in front, empty or not.
CallPath_AlwaysDot(h, i) ==
    ContainerPath(h, parent(h[i])) \o "." \o h[i]._name

\* CommandGraphCall.path
CallPath(h, i) ==
    LET parent_path == ContainerPath(h, parent(h[i]))
    IN  IF parent_path # "" THEN parent_path \o "." \o h[i]._name
        ELSE h[i]._name

\* node.path
path(h, i) ==
    IF h[i].cls = "CommandGraphCall" THEN CallPath(h, i) ELSE ContainerPath(h, i)

\* ------------------------------------------------------------ navigation
\* The two ways navigate ends with a KeyError: the raise statement, and the
\* lookup of a name the dict does not hold.  (The exception's argument, which
\* repeats the name, is left out of the tag.)
NotAnObject == "KeyError: Given node is not an object"
LookupError == "KeyError"

Returned(node) == [raised |-> "", made |-> <<node>>]
Raised(what) == [raised |-> what, made |-> <<>>]

\* Mutant: the name is looked for among all object kinds, `name in
\* _CommandGraphMap`.
IsChild_AnyKind(node, name) == name \in DOMAIN _CommandGraphMap

\* `name in self.children`
IsChild(node, name) == In(name, children(node))

\* Mutant: the truth value of the selector, `elif selector:`.
IsPresent_Truthy(sel) == sel # None /\ sel # Some("")

\* `selector is not None`
IsPresent(sel) == sel # None

\* _CommandGraphMap[name](selector, self)
Construct(name, sel, n) ==
    IF name \in DOMAIN _CommandGraphMap
    THEN Returned(NewObject(_CommandGraphMap[name], sel, n))
    ELSE Raised(LookupError)

\* Mutant: the command reading is tried first, a name without a selector is
\* always a call.
navigate_CallFirst(h, n, name, sel) ==
    IF ~IsPresent(sel) THEN Returned(NewCall(name, n))
    ELSE IF IsChild(h[n], name) THEN Construct(name, sel, n)
    ELSE Raised(NotAnObject)

\* Mutant: the name of an object kind that is no child here is refused too.
navigate_KindsOnly(h, n, name, sel) ==
    IF IsChild(h[n], name) THEN Construct(name, sel, n)
    ELSE IF IsPresent(sel) \/ name \in DOMAIN _CommandGraphMap THEN Raised(NotAnObject)
    ELSE Returned(NewCall(name, n))

\* CommandGraphContainer.navigate(self, name, selector), self being the node at
\* index n of heap h: the node it returns, or the exception it raises.
navigate(h, n, name, sel) ==
    IF IsChild(h[n], name) THEN Construct(name, sel, n)
    ELSE IF IsPresent(sel) THEN Raised(NotAnObject)
    ELSE Returned(NewCall(name, n))

\* Mutant: navigate is a method of every node class.
HasNavigate_AnyNode(node) == TRUE

\* The nodes navigate can be called on: the instances of the classes that
\* inherit it.
HasNavigate(node) == node.cls \in ContainerClasses

\* ---------------------------------------------------------------- actions
NoCall == [raised |-> "", ret |-> 0]

Init ==
    /\ nodes = <<RootNode>>
    /\ trail = << <<>> >>
    /\ result = NoCall

\* What one navigate step adds to the trail of the node it was called on.
Step(n, name, sel, cls) == [on |-> n, name |-> name, selector |-> sel, made |-> cls]

\* Mutant: navigate also stores the selector it was given in the node it was
\* called on.
Navigate_InPlace(n, name, sel) ==
    /\ n \in DOMAIN nodes
    /\ HasNavigate(nodes[n])
    /\ LET r == navigate(nodes, n, name, sel)
       IN  IF r.raised = ""
           THEN /\ nodes' = Append([nodes EXCEPT ![n]._selector = sel], r.made[1])
                /\ trail' = Append(trail, Append(trail[n], Step(n, name, sel, r.made[1].cls)))
                /\ result' = [raised |-> "", ret |-> Len(nodes) + 1]
           ELSE /\ result' = [raised |-> r.raised, ret |-> 0]
                /\ UNCHANGED <<nodes, trail>>

\* A caller holding a reference to nodes[n] calls nodes[n].navigate(name, sel).
\* A returned node is a new object of the heap; an exception leaves the heap
\* as it was.
Navigate(n, name, sel) ==
    /\ n \in DOMAIN nodes
    /\ HasNavigate(nodes[n])
    /\ LET r == navigate(nodes, n, name, sel)
       IN  IF r.raised = ""
           THEN /\ nodes' = Append(nodes, r.made[1])
                /\ trail' = Append(trail, Append(trail[n], Step(n, name, sel, r.made[1].cls)))
                /\ result' = [raised |-> "", ret |-> Len(nodes) + 1]
           ELSE /\ result' = [raised |-> r.raised, ret |-> 0]
                /\ UNCHANGED <<nodes, trail>>

\* Callers navigate from any node they hold, in any order.
Next ==
    \E n \in 1..MaxNodes, name \in Names, sel \in Selectors :
        Navigate(n, name, sel) /\ Len(nodes') <= MaxNodes

Spec == Init /\ [][Next]_vars

\* One caller resolving one address: each step navigates from the node the
\* step before returned.
NextWalk ==
    \E name \in Names, sel \in Selectors :
        Navigate(Len(nodes), name, sel) /\ Len(nodes') <= MaxWalk

SpecWalk == Init /\ [][NextWalk]_vars

\* ================================================================ claims
Containers == {i \in DOMAIN nodes : nodes[i].cls \in ContainerClasses}
Objects == {i \in DOMAIN nodes : nodes[i].cls \in ObjectClasses}
Calls == {i \in DOMAIN nodes : nodes[i].cls = "CommandGraphCall"}
Present == Selectors \ {None}
Range(list) == {list[k] : k \in DOMAIN list}
Last(list) == list[Len(list)]
\* The navigate step that made node i (i > 1).
MadeBy(i) == Last(trail[i])

\* The six object kinds, and the adjacency table as the specification gives it.
Kinds == {"bar", "group", "layout", "screen", "widget", "window"}
KindOf(node) == IF node.cls = "CommandGraphRoot" THEN "root" ELSE object_type(node)
Adjacency(kind) ==
    CASE kind = "root"   -> {"bar", "group", "layout", "screen", "widget", "window"}
      [] kind = "bar"    -> {"screen"}
      [] kind = "group"  -> {"layout", "window", "screen"}
      [] kind = "layout" -> {"group", "window", "screen"}
      [] kind = "screen" -> {"layout", "window", "bar"}
      [] kind = "widget" -> {"bar", "screen", "group"}
      [] kind = "window" -> {"group", "screen", "layout"}

\* ---------------------------------------------------------------------- C1
\* What navigate(n, c, s) answers for a child name c: an object of kind c
\* with selector s and parent n.
C1_Answer(n, c, s) ==
    LET r == navigate(nodes, n, c, s)
    IN  /\ r.raised = ""
        /\ Len(r.made) = 1
        /\ r.made[1].cls \in ObjectClasses
        /\ object_type(r.made[1]) = c
        /\ selector(r.made[1]) = s
        /\ parent(r.made[1]) = n

\* C1: for every container node n, every name c in n.children and every
\* selector s, absent or present, navigate(n, c, s) returns a new container
\* object of kind c with selector s and parent n; it never raises and never
\* returns a call.  The node a step returned is the newest object of the heap.
C1_RecognizedKindWins ==
    /\ \A n \in Containers : \A c \in Names : \A s \in Selectors :
          IsChild(nodes[n], c) => C1_Answer(n, c, s)
    /\ \A i \in DOMAIN nodes : i > 1 /\ IsChild(nodes[MadeBy(i).on], MadeBy(i).name) =>
          /\ i \in Objects
          /\ object_type(nodes[i]) = MadeBy(i).name
          /\ selector(nodes[i]) = MadeBy(i).selector
          /\ parent(nodes[i]) = MadeBy(i).on
    /\ result.ret # 0 => result.ret = Len(nodes) /\ result.raised = ""

\* C1 witness: a non-root container was asked for one of its children, once
\* without a selector and the heap holds the object it returned.
C1_Witness ==
    \E i \in Objects :
        /\ MadeBy(i).on # 1
        /\ MadeBy(i).selector = None
        /\ IsChild(nodes[MadeBy(i).on], MadeBy(i).name)
        /\ result.ret = i

\* ---------------------------------------------------------------------- C2
\* C2: for every container node n, every name c not in n.children and every
\* present selector s, the empty string included, navigate(n, c, s) raises the
\* not-an-object KeyError and makes no node; a step that raised left the heap
\* as it was.
C2_SelectorOnUnknownNameFails ==
    /\ [](\A n \in Containers : \A c \in Names : \A s \in Present :
            ~IsChild(nodes[n], c) =>
                /\ navigate(nodes, n, c, s).raised = NotAnObject
                /\ navigate(nodes, n, c, s).made = <<>>)
    /\ [][result'.raised # "" => nodes' = nodes /\ result'.ret = 0]_vars

\* C2 witness: a navigate step has raised on a node below the root.
C2_Witness ==
    /\ result.raised = NotAnObject
    /\ Len(nodes) = 2
    /\ nodes[2].cls = "_BarGraphNode"
    /\ ~IsChild(nodes[2], "bar")

\* ---------------------------------------------------------------------- C3
\* C3: for every container node n and every name c not in n.children,
\* navigate(n, c, None) returns a call with name c and parent n, also when c
\* names an object kind: a widget node asked for "window" answers a call, a
\* window node asked for "group" answers a group object.
C3_UnknownNameIsCall ==
    /\ \A n \in Containers : \A c \in Names :
          ~IsChild(nodes[n], c) =>
              LET r == navigate(nodes, n, c, None)
              IN  /\ r.raised = ""
                  /\ r.made = <<NewCall(c, n)>>
                  /\ r.made[1].cls = "CommandGraphCall"
                  /\ r.made[1]._name = c
                  /\ parent(r.made[1]) = n
    /\ \A n \in Containers :
          /\ nodes[n].cls = "_WidgetGraphNode" =>
                navigate(nodes, n, "window", None).made[1].cls = "CommandGraphCall"
          /\ nodes[n].cls = "_WindowGraphNode" =>
                navigate(nodes, n, "group", None).made[1].cls = "_GroupGraphNode"
    /\ \A i \in DOMAIN nodes :
          i > 1 /\ ~IsChild(nodes[MadeBy(i).on], MadeBy(i).name) =>
              /\ i \in Calls
              /\ nodes[i]._name = MadeBy(i).name
              /\ parent(nodes[i]) = MadeBy(i).on
              /\ MadeBy(i).selector = None

\* C3 witness: a widget node was asked for "window" and answered a call.
C3_Witness ==
    \E i \in Calls :
        /\ nodes[i]._name = "window"
        /\ nodes[parent(nodes[i])].cls = "_WidgetGraphNode"
        /\ result.ret = i

\* ---------------------------------------------------------------------- C4
\* C4 as stated: navigate(Root, k, s) succeeds if and only if k is in
\* Root.children, for all names k and all selectors s: every node a navigate
\* on the root returned was asked for by the name of a child of the root.
C4_Original ==
    \A i \in DOMAIN nodes :
        i > 1 /\ MadeBy(i).on = 1 => MadeBy(i).name \in Kinds

\* C4, amended: with a present selector navigate(Root, k, s) succeeds if and
\* only if k is one of bar, group, layout, screen, widget, window; with the
\* absent selector it succeeds for every name k, answering a call when k is
\* none of the six.
C4_RootNavigate ==
    /\ \A k \in Names : \A s \in Selectors :
          LET r == navigate(nodes, 1, k, s)
          IN  /\ (r.raised = "") <=> (k \in Kinds \/ s = None)
              /\ r.raised = "" => (r.made[1].cls = "CommandGraphCall" <=> k \notin Kinds)
    /\ \A i \in DOMAIN nodes :
          i > 1 /\ MadeBy(i).on = 1 => (MadeBy(i).name \in Kinds \/ MadeBy(i).selector = None)
    /\ Len(nodes) = 1 /\ result.raised # "" => result.raised = NotAnObject

\* C4 witness: the root has refused a call and has answered one with a call.
C4_Witness ==
    /\ result.raised = NotAnObject
    /\ \E i \in Calls : MadeBy(i).on = 1 /\ MadeBy(i).name \notin Kinds
    /\ \E i \in Objects : MadeBy(i).on = 1 /\ MadeBy(i).selector # None

\* ---------------------------------------------------------------------- C5
\* C5: the children of every node are those the adjacency table gives its
\* kind, whatever its selector and parent; window is not among a widget's
\* children and widget not among a window's.
C5_ChildrenIsSchema ==
    /\ \A i \in Containers : Range(children(nodes[i])) = Adjacency(KindOf(nodes[i]))
    /\ \A i \in Containers : \A j \in Containers :
          nodes[i].cls = nodes[j].cls => children(nodes[i]) = children(nodes[j])
    /\ \A i \in Containers :
          /\ nodes[i].cls = "_WidgetGraphNode" => ~IsChild(nodes[i], "window")
          /\ nodes[i].cls = "_WindowGraphNode" => ~IsChild(nodes[i], "widget")

\* C5 witness: two nodes of one kind with different selectors and different
\* parents.
C5_Witness ==
    \E i \in Objects : \E j \in Objects :
        /\ nodes[i].cls = nodes[j].cls
        /\ selector(nodes[i]) # selector(nodes[j])
        /\ parent(nodes[i]) # parent(nodes[j])

\* ---------------------------------------------------------------------- C6
\* C6: the root's selectors are the empty sequence; an object's selectors are
\* its parent's with one step, (own kind, own selector), appended at the end;
\* a call's selectors are its parent's, unchanged.
C6_SelectorsChain ==
    \A i \in DOMAIN nodes :
        LET own == selectors(nodes, i)
            up == selectors(nodes, parent(nodes[i]))
        IN  /\ i = 1 => own = <<>>
            /\ i \in Objects =>
                  /\ Len(own) = Len(up) + 1
                  /\ SubSeq(own, 1, Len(up)) = up
                  /\ Last(own) = <<object_type(nodes[i]), nodes[i]._selector>>
                  /\ Last(own) = <<MadeBy(i).name, MadeBy(i).selector>>
            /\ i \in Calls => own = up

\* C6 witness: a call below an object below the root, the object selected by
\* the empty string.
C6_Witness ==
    \E i \in Calls :
        /\ parent(nodes[i]) \in Objects
        /\ selectors(nodes, i) = << <<"screen", Some("")>> >>
        /\ result.ret = i

\* ---------------------------------------------------------------------- C7
\* C7: the path of a call is its parent's path, ".", and its name when the
\* parent's path is not empty, and its name alone otherwise: "status" for
\* navigate(Root, "status", None), "group[work].info" for "info" asked of
\* navigate(Root, "group", "work").
C7_CallPath ==
    \A i \in Calls :
        LET p == parent(nodes[i])
            parent_path == path(nodes, p)
        IN  /\ parent_path # "" => path(nodes, i) = parent_path \o "." \o nodes[i]._name
            /\ parent_path = "" => path(nodes, i) = nodes[i]._name
            /\ p = 1 /\ nodes[i]._name = "status" => path(nodes, i) = "status"
            /\ /\ nodes[i]._name = "info"
               /\ nodes[p] = NewObject("_GroupGraphNode", Some("work"), 1)
               => path(nodes, i) = "group[work].info"

\* C7 witness: the call "info" on the group selected by "work" has just been
\* returned.
C7_Witness ==
    \E i \in Calls :
        /\ nodes[i]._name = "info"
        /\ MadeBy(i).selector = None
        /\ nodes[parent(nodes[i])] = NewObject("_GroupGraphNode", Some("work"), 1)
        /\ path(nodes, parent(nodes[i])) # ""
        /\ result.ret = i

\* ---------------------------------------------------------------------- C8
\* The rendering of a chain of steps as the specification words it: each step
\* as kind[selector] when the selector is present and as kind when it is
\* absent, the steps joined by ".".
C8_RenderStep(step) ==
    IF step[2] = None THEN step[1] ELSE step[1] \o "[" \o step[2][1] \o "]"

RECURSIVE C8_Render(_)
C8_Render(steps) ==
    IF Len(steps) = 0 THEN ""
    ELSE IF Len(steps) = 1 THEN C8_RenderStep(steps[1])
    ELSE C8_Render(SubSeq(steps, 1, Len(steps) - 1)) \o "." \o C8_RenderStep(Last(steps))

\* The steps from the root down to container i, read off the trail.
C8_Steps(i) == [k \in DOMAIN trail[i] |-> <<trail[i][k].name, trail[i][k].selector>>]

\* C8: the path of every container node is the rendering of its selectors,
\* which are the steps that led to it in root-to-node order: "screen[1].layout"
\* after ("screen", "1") and ("layout", None), the empty string for the root.
C8_PathIsFormattedSelectors ==
    /\ \A i \in Containers :
          /\ path(nodes, i) = C8_Render(selectors(nodes, i))
          /\ path(nodes, i) = C8_Render(C8_Steps(i))
          /\ C8_Steps(i) = << <<"screen", Some("1")>>, <<"layout", None>> >> =>
                path(nodes, i) = "screen[1].layout"
    /\ path(nodes, 1) = ""

\* C8 witness: the node the two steps of the example lead to.
C8_Witness ==
    \E i \in Objects :
        /\ C8_Steps(i) = << <<"screen", Some("1")>>, <<"layout", None>> >>
        /\ nodes[i].cls = "_LayoutGraphNode"
        /\ result.ret = i

\* ---------------------------------------------------------------------- C9
\* The parent links followed from node i, at most `fuel` of them: the nodes
\* passed, i first.
RECURSIVE C9_Chain(_, _)
C9_Chain(i, fuel) ==
    IF i \notin DOMAIN nodes \/ fuel = 0 THEN <<>>
    ELSE <<i>> \o C9_Chain(nodes[i]._parent, fuel - 1)

\* The steps of a trail that returned a container object.
C9_ObjectSteps(steps) == {k \in DOMAIN steps : steps[k].made \in ObjectClasses}

\* C9: the parent chain of every node ends at the root, holds no node twice,
\* and holds as many container objects as there are object-making steps among
\* the steps that led to the node, which is the length of its selectors.
C9_ParentChain ==
    \A i \in DOMAIN nodes :
        LET chain == C9_Chain(i, Len(nodes) + 1)
            made == Cardinality(C9_ObjectSteps(trail[i]))
        IN  /\ Len(chain) <= Len(nodes)
            /\ Last(chain) = 1
            /\ \A a \in DOMAIN chain : \A b \in DOMAIN chain : chain[a] = chain[b] => a = b
            /\ Cardinality({a \in DOMAIN chain : chain[a] \in Objects /\ chain[a] # i})
                 + (IF i \in Objects THEN 1 ELSE 0) = made
            /\ Len(selectors(nodes, i)) = made
            /\ i > 1 => parent(nodes[i]) \in DOMAIN nodes /\ parent(nodes[i]) < i

\* C9 witness: a call reached by three steps, two of which made objects.
C9_Witness ==
    \E i \in Calls :
        /\ Len(trail[i]) = 3
        /\ Cardinality(C9_ObjectSteps(trail[i])) = 2
        /\ C9_Chain(i, Len(nodes) + 1) = <<4, 3, 2, 1>>

\* --------------------------------------------------------------------- C10
\* C10: a call is a leaf.  No navigate step can be taken from a call, the
\* parent of every node is the root or a container object, and among the steps
\* that led to a node only the last can have returned a call.
C10_CallIsLeaf ==
    /\ \A i \in Calls : \A c \in Names : \A s \in Selectors : ~ENABLED Navigate(i, c, s)
    /\ \A i \in DOMAIN nodes :
          i > 1 => nodes[parent(nodes[i])].cls \in ContainerClasses
    /\ \A i \in DOMAIN nodes : \A k \in DOMAIN trail[i] :
          /\ trail[i][k].made = "CommandGraphCall" => k = Len(trail[i])
          /\ nodes[trail[i][k].on].cls # "CommandGraphCall"

\* C10 witness: a call is the node the walk has reached, below an object.
C10_Witness ==
    /\ Len(nodes) \in Calls
    /\ result.ret = Len(nodes)
    /\ parent(nodes[Len(nodes)]) \in Objects
    /\ Len(nodes) < MaxWalk

\* --------------------------------------------------------------------- C11
\* The steps of a trail that returned a container object, as selector steps.
C11_IsObjectStep(step) == step.made \in ObjectClasses
C11_Steps(i) ==
    LET made == SelectSeq(trail[i], C11_IsObjectStep)
    IN  [k \in DOMAIN made |-> <<made[k].name, made[k].selector>>]

\* The path node i had when the call recorded last in its trail returned it.
C11_PathWhenMade(i) ==
    IF i \in Calls
    THEN IF Len(C11_Steps(i)) = 0 THEN MadeBy(i).name
         ELSE C8_Render(C11_Steps(i)) \o "." \o MadeBy(i).name
    ELSE C8_Render(C11_Steps(i))

\* The arguments of the call that made node i.
C11_Args(i) == <<MadeBy(i).on, MadeBy(i).name, MadeBy(i).selector>>

\* C11: a navigate step, returning or raising, leaves every node that exists
\* and the record of how it was made as they were.  In every later heap a node
\* still has the selectors and the path of the steps that made it, navigate
\* asked again with the arguments that made it answers an equal node, and two
\* calls with the same arguments on the same node have returned equal nodes
\* whatever other calls were made before, between or after them.
C11_NothingMutated ==
    /\ [][/\ Len(nodes') >= Len(nodes)
          /\ SubSeq(nodes', 1, Len(nodes)) = nodes
          /\ SubSeq(trail', 1, Len(trail)) = trail]_vars
    /\ [](\A i \in DOMAIN nodes : i > 1 =>
            /\ selectors(nodes, i) = C11_Steps(i)
            /\ path(nodes, i) = C11_PathWhenMade(i)
            /\ nodes[i].cls = MadeBy(i).made
            /\ navigate(nodes, MadeBy(i).on, MadeBy(i).name, MadeBy(i).selector)
                 = Returned(nodes[i]))
    /\ [](\A i \in DOMAIN nodes : \A j \in DOMAIN nodes :
            i > 1 /\ j > 1 /\ C11_Args(i) = C11_Args(j) =>
                /\ nodes[i] = nodes[j]
                /\ selectors(nodes, i) = selectors(nodes, j)
                /\ path(nodes, i) = path(nodes, j))

\* C11 witness: the same call, with a selector, was made twice on the root and
\* the heap holds the two nodes returned.
C11_Witness ==
    \E i \in Objects : \E j \in Objects :
        /\ i < j
        /\ C11_Args(i) = C11_Args(j)
        /\ MadeBy(i).selector = Some("1")
        /\ result.ret = j

\* --------------------------------------------------------------------- C12
\* C12: the dispatch table has exactly the keys bar, group, layout, screen,
\* widget, window, each mapped to the class whose object kind is the key;
\* every child the root or an object class lists is a key, so a navigate step
\* raises only for a present selector on a name that is no child, never at the
\* lookup; and the selectors and the path of every node are defined: a
\* sequence of (kind, selector) steps and a string.
C12_FailureOnlyInNavigate ==
    /\ DOMAIN _CommandGraphMap = Kinds
    /\ \A k \in DOMAIN _CommandGraphMap :
          /\ _CommandGraphMap[k] \in ObjectClasses
          /\ object_type([cls |-> _CommandGraphMap[k]]) = k
    /\ \A cls \in ContainerClasses :
          Range(children([cls |-> cls])) \subseteq DOMAIN _CommandGraphMap
    /\ \A n \in Containers : \A c \in Names : \A s \in Selectors :
          LET r == navigate(nodes, n, c, s)
          IN  /\ r.raised \in {"", NotAnObject}
              /\ r.raised = NotAnObject <=> (~IsChild(nodes[n], c) /\ s # None)
    /\ result.raised \in {"", NotAnObject}
    /\ \A i \in DOMAIN nodes :
          /\ selectors(nodes, i) \in Seq(Kinds \X Selectors)
          /\ path(nodes, i) \in STRING

\* C12 witness: the lookup has built an object below an object, selected by a
\* string, and its path is rendered.
C12_Witness ==
    \E i \in Objects :
        /\ result.ret = i
        /\ parent(nodes[i]) \in Objects
        /\ selector(nodes[i]) = Some("work")
        /\ Len(selectors(nodes, i)) = 2
        /\ path(nodes, i) = "widget.bar[work]"

\* --------------------------------------------------------------------- C13
\* C13: the kinds of the selectors of every node form a path of the adjacency
\* table: the first is a child of the root and each next one is a child of the
\* kind before it.
C13_TypeSafeNavigation ==
    \A i \in DOMAIN nodes :
        LET steps == selectors(nodes, i)
        IN  /\ Len(steps) > 0 => steps[1][1] \in Adjacency("root")
            /\ \A k \in DOMAIN steps :
                  k > 1 => /\ steps[k - 1][1] \in Kinds
                           /\ steps[k][1] \in Adjacency(steps[k - 1][1])

\* C13 witness: a window object three steps below the root and below a widget,
\* a chain the table connects although widget does not list window.
C13_Witness ==
    \E i \in Objects :
        /\ Len(selectors(nodes, i)) = 3
        /\ selectors(nodes, i)[1][1] = "widget"
        /\ selectors(nodes, i)[3][1] = "window"
        /\ result.ret = i

\* --------------------------------------------------------------------- C14
\* C14: the path of a container object is never the empty string and the
\* root's path is the empty string; so the path of a call is its bare name,
\* with nothing in front, exactly when its parent is the root, and is the
\* parent's path, ".", and the name for every other parent.
C14_NameOnlyAtRoot ==
    /\ \A i \in Objects : path(nodes, i) # ""
    /\ path(nodes, 1) = ""
    /\ \A i \in Calls :
          LET p == parent(nodes[i])
          IN  /\ (path(nodes, i) = nodes[i]._name) <=> (p = 1)
              /\ p # 1 => /\ path(nodes, p) # ""
                          /\ path(nodes, i) = path(nodes, p) \o "." \o nodes[i]._name

\* C14 witness: a call on an object that has no selector, whose path is the
\* bare kind.
C14_Witness ==
    \E i \in Calls :
        /\ parent(nodes[i]) \in Objects
        /\ selector(nodes[parent(nodes[i])]) = None
        /\ path(nodes, parent(nodes[i])) = "layout"
        /\ path(nodes, i) = "layout.status"
        /\ result.ret = i

\* --------------------------------------------------------------------- C15
\* C15: no object class lists widget among its children; widget occurs in the
\* selectors of a node only as the first step; on every container object,
\* navigate for "widget" answers a call named "widget" without a selector and
\* raises the not-an-object KeyError with one.
C15_WidgetOnlyFirst ==
    /\ \A cls \in ObjectClasses : ~In("widget", children([cls |-> cls]))
    /\ \A i \in DOMAIN nodes : \A k \in DOMAIN selectors(nodes, i) :
          selectors(nodes, i)[k][1] = "widget" => k = 1
    /\ \A n \in Objects :
          /\ navigate(nodes, n, "widget", None) = Returned(NewCall("widget", n))
          /\ \A s \in Present : navigate(nodes, n, "widget", s) = Raised(NotAnObject)
    /\ \A i \in DOMAIN nodes :
          i > 1 /\ MadeBy(i).name = "widget" /\ MadeBy(i).on # 1 =>
              /\ i \in Calls
              /\ nodes[i]._name = "widget"
              /\ MadeBy(i).selector = None

\* C15 witness: below a widget at the first step, an object asked for
\* "widget" has answered a call.
C15_Witness ==
    \E i \in Calls :
        /\ nodes[i]._name = "widget"
        /\ parent(nodes[i]) # 1
        /\ selectors(nodes, i)[1][1] = "widget"
        /\ Len(selectors(nodes, i)) = 2
        /\ result.ret = i

====
